---------------------------- MODULE Spec2Model ----------------------------
(***************************************************************************)
(* Model of the guessing-game WebSocket server (src/src/main.rs,           *)
(* src/src/guessing_game.rs, src/src/utils.rs, src/src/config.rs).         *)
(*                                                                         *)
(* The specifications share the definitions below:                         *)
(*   Spec           the /ws/guess handler driven by a transport that       *)
(*                  delivers open -> messages -> close per connection;     *)
(*   SpecMisordered the same handler driven by a transport that may        *)
(*                  deliver any event at any time;                         *)
(*   SpecEngine     GuessingGame::new followed by GuessingGame::guess      *)
(*                  calls, as the unit tests of guessing_game.rs drive it; *)
(*   SpecParse      one call of GuessingGame::parse_guess on a string;     *)
(*   SpecNth        one call of nth on a number;                           *)
(*   SpecSecret     Spec, together with one computation of a secret for    *)
(*                  each value rand can return;                            *)
(*   SpecDecode     the payload path of the handler on one session and     *)
(*                  one payload.                                           *)
(***************************************************************************)
EXTENDS Integers, Sequences, FiniteSets, TLC

VARIABLES
    sessions,   \* guessing_games: BTreeMap<i32, GuessingGame> (function on its key set)
    lockedBy,   \* connection whose handler holds the MutexGuard, NoOne when free
    poisoned,   \* std::sync::Mutex poison flag
    crashed,    \* the process was aborted by a panic (panic = abort builds)
    opened,     \* transport side: connections whose open event was delivered
                \* and whose close event was not
    pc,         \* per connection: where its handler invocation stands
    ev,         \* per connection: the event of the invocation (new / msg / closed)
    len,        \* per connection: frame.1 of the size probe
    buf,        \* per connection: buf[..len] after the payload read
    scored,     \* per connection: user_guess and the value session.guess returned
    out,        \* per connection: frames the taken branch has still to send
    final,      \* per connection: value the taken branch returns after its sends
    sent,       \* per connection: frames handed to ws.send in this invocation
    res,        \* per connection: how the invocation ended
    entry,      \* per connection: the session as get_mut found it (history)
    recvs,      \* per connection: buffer sizes of the ws.recv calls of this
                \* invocation, in call order (history)
    misses,     \* per connection: guesses scored Greater or Less since its open
                \* event (history)
    alone,      \* per connection: the session that the events of this connection
                \* produce when they are applied to a game of its own, NoGame
                \* outside open .. close (history)
    game,       \* SpecEngine: the GuessingGame under test
    lastCall,   \* SpecEngine: argument and return value of the last guess call
    arg,        \* function specifications: the argument of the call
    ret         \* function specifications: the value returned, NoRet before the call

vars == <<sessions, lockedBy, poisoned, crashed, opened, pc, ev, len, buf,
          scored, out, final, sent, res, entry, recvs, misses, alone, game,
          lastCall, arg, ret>>

serverVars == <<sessions, lockedBy, poisoned, crashed, opened, pc, ev, len, buf,
                scored, out, final, sent, res, entry, recvs, misses,
                alone>>

engineVars == <<game, lastCall>>

callVars == <<arg, ret>>

---------------------------------------------------------------------------
(* Bounds of the model and program constants *)

\* Number of connection identifiers the transport hands out.
NumConns == 2

\* The handler scores at most this many guesses per session (caps the u32 counter).
MaxGuesses == 2

\* SpecEngine: guesses are drawn from 0..MaxGuessValue.
MaxGuessValue == 101

\* SpecEngine: at most this many guess calls on one game.
MaxCalls == 2

\* SpecParse: strings over InputChars of up to this many characters.
MaxInputLen == 4

\* SpecParse: up to this many padding characters on each side of a number.
MaxPad == 2

\* SpecNth: nth is called on 0..MaxOrdinal.
MaxOrdinal == 125

\* SpecDecode: payloads of up to this many bytes.
MaxBytes == 4

\* SpecDecode: up to this many bytes follow the first NUL of a second payload.
MaxTail == 2

\* config.rs: pub const MAX_LEN: usize = 8;
MAX_LEN == 8

Conns == 1..NumConns

NoOne == 0

NoScore == [guess |-> 0, ord |-> "None", n |-> 0]

NoGame == [guesses |-> 0, secret |-> 0, done |-> FALSE]

\* len and buf before the recv that sets them has returned
NoLen == -1

NoBuf == <<-1>>

\* arg and ret of the function specifications outside a call
NoArg == [fn |-> "none"]

NoRet == [done |-> FALSE]

\* the subsec_nanos value the clock of the server is sampled at: rand() = 49,
\* secret 50 (SpecSecret draws the clock reading from the whole range)
NanosSamples == {3211313}

\* buf[..len] as the handler can observe it after the two recv calls
Payloads ==
    { <<53, 48, 0>>,                    \* "50" NUL
      <<49, 0>>,                        \* "1" NUL
      <<49, 48, 48, 0>>,                \* "100" NUL
      <<53, 48>>,                       \* "50", no terminator
      <<255, 0>>,                       \* invalid UTF-8, NUL
      <<97, 0>>,                        \* "a" NUL
      <<49, 48, 49, 0>>,                \* "101" NUL
      <<53, 48, 0, 97, 0, 0, 0, 0>>     \* "50" NUL "a" and four NULs: MAX_LEN bytes
    }

\* frame lengths the size probe can report; MAX_LEN + 1 is oversized
PayloadLens == {Len(b) : b \in Payloads} \cup {MAX_LEN + 1}

---------------------------------------------------------------------------
(* guessing_game.rs *)

\* new with the counter started at 1
new_counted(secret) == [guesses |-> 1, secret |-> secret, done |-> FALSE]

\* GuessingGame::new
new(secret) == [guesses |-> 0, secret |-> secret, done |-> FALSE]

\* u32::cmp
cmp(a, b) == IF a < b THEN "Less" ELSE IF a > b THEN "Greater" ELSE "Equal"

\* guess with the operands of the comparison swapped
guess_swapped(self, g) ==
    IF self.done
    THEN [game |-> self, ord |-> "Equal", n |-> self.guesses]
    ELSE LET guesses == self.guesses + 1
             c == cmp(self.secret, g)
         IN  [game |-> [self EXCEPT !.guesses = guesses,
                                    !.done = (c = "Equal")],
              ord |-> c, n |-> guesses]

\* guess without the early return for a completed game
guess_no_done_check(self, g) ==
    LET guesses == self.guesses + 1
        c == cmp(g, self.secret)
    IN  [game |-> [self EXCEPT !.guesses = guesses,
                               !.done = (self.done \/ c = "Equal")],
         ord |-> c, n |-> guesses]

\* GuessingGame::guess: the updated game and the returned (Ordering, u32)
guess(self, g) ==
    IF self.done
    THEN [game |-> self, ord |-> "Equal", n |-> self.guesses]
    ELSE LET guesses == self.guesses + 1
             c == cmp(g, self.secret)
         IN  [game |-> [self EXCEPT !.guesses = guesses,
                                    !.done = (c = "Equal")],
              ord |-> c, n |-> guesses]

\* GuessingGame::secret
secret(self) == self.secret

\* char::is_ascii_control
is_ascii_control(c) == c <= 31 \/ c = 127

\* char::is_whitespace (Unicode White_Space)
is_whitespace(c) ==
    \/ c \in 9..13
    \/ c \in {32, 133, 160, 5760, 8232, 8233, 8239, 8287, 12288}
    \/ c \in 8192..8202

\* a closure that matches whitespace only
TrimPred_whitespace(c) == is_whitespace(c)

\* the closure handed to trim_matches
TrimPred(c) == is_ascii_control(c) \/ is_whitespace(c)

RECURSIVE TrimStart(_)
TrimStart(s) ==
    IF s # <<>> /\ TrimPred(Head(s)) THEN TrimStart(Tail(s)) ELSE s

RECURSIVE TrimEnd(_)
TrimEnd(s) ==
    IF s # <<>> /\ TrimPred(s[Len(s)])
    THEN TrimEnd(SubSeq(s, 1, Len(s) - 1))
    ELSE s

\* str::trim_matches with that closure
trim_matches(s) == TrimEnd(TrimStart(s))

IsDigit(c) == c \in 48..57

\* the decimal digits of u32::MAX, 4294967295
U32MaxDigits == <<52, 50, 57, 52, 57, 54, 55, 50, 57, 53>>

RECURSIVE StripZeros(_)
StripZeros(s) ==
    IF s # <<>> /\ Head(s) = 48 THEN StripZeros(Tail(s)) ELSE s

\* a > b for digit strings of equal length
RECURSIVE DigitsGreater(_, _)
DigitsGreater(a, b) ==
    IF a = <<>> THEN FALSE
    ELSE IF Head(a) # Head(b) THEN Head(a) > Head(b)
    ELSE DigitsGreater(Tail(a), Tail(b))

\* digits folded left to right: acc * 10 + digit
RECURSIVE DigitsValue(_, _)
DigitsValue(s, acc) ==
    IF s = <<>> THEN acc
    ELSE DigitsValue(Tail(s), acc * 10 + (Head(s) - 48))

\* str::parse::<u32>: an optional '+', then one or more ASCII digits; the checked
\* arithmetic fails exactly when the number exceeds u32::MAX. val is exact below
\* 10^9; a ten-digit number that fits u32 is reported as 10^9 (it does not fit
\* the integers of the model checker), which no caller tells from the exact value.
parse_u32(s) ==
    LET digits == IF s # <<>> /\ Head(s) = 43 THEN Tail(s) ELSE s
        sig == StripZeros(digits)
    IN  IF digits = <<>> \/ \E i \in 1..Len(digits) : ~IsDigit(digits[i])
        THEN [ok |-> FALSE, val |-> 0]
        ELSE IF Len(sig) > 10 \/ (Len(sig) = 10 /\ DigitsGreater(sig, U32MaxDigits))
        THEN [ok |-> FALSE, val |-> 0]
        ELSE IF Len(sig) = 10 THEN [ok |-> TRUE, val |-> 1000000000]
        ELSE [ok |-> TRUE, val |-> DigitsValue(sig, 0)]

\* parse_guess with 0 admitted to the range
parse_guess_from_zero(input) ==
    LET number == parse_u32(trim_matches(input))
    IN  IF ~number.ok THEN [some |-> FALSE, val |-> 0]
        ELSE IF ~(number.val \in 0..100) THEN [some |-> FALSE, val |-> 0]
        ELSE [some |-> TRUE, val |-> number.val]

\* GuessingGame::parse_guess on a string given as its code points
parse_guess(input) ==
    LET number == parse_u32(trim_matches(input))
    IN  IF ~number.ok THEN [some |-> FALSE, val |-> 0]
        ELSE IF ~(number.val \in 1..100) THEN [some |-> FALSE, val |-> 0]
        ELSE [some |-> TRUE, val |-> number.val]

---------------------------------------------------------------------------
(* utils.rs *)

\* rand: subsec_nanos / 65537
rand(nanos) == nanos \div 65537

\* nth with the numbers ending in 11, 12 and 13 given "th"
nth_teens(n) ==
    IF n \in 0..13
    THEN CASE n = 0 -> "zeroth"
           [] n = 1 -> "first"
           [] n = 2 -> "second"
           [] n = 3 -> "third"
           [] n = 4 -> "fourth"
           [] n = 5 -> "fifth"
           [] n = 6 -> "sixth"
           [] n = 7 -> "seventh"
           [] n = 8 -> "eighth"
           [] n = 9 -> "ninth"
           [] n = 10 -> "10th"
           [] n = 11 -> "11th"
           [] n = 12 -> "12th"
           [] n = 13 -> "13th"
    ELSE CASE n % 100 \in 11..13 -> ToString(n) \o "th"
           [] n % 10 = 1 -> ToString(n) \o "st"
           [] n % 10 = 2 -> ToString(n) \o "nd"
           [] n % 10 = 3 -> ToString(n) \o "rd"
           [] OTHER -> ToString(n) \o "th"

\* nth
nth(n) ==
    IF n \in 0..13
    THEN CASE n = 0 -> "zeroth"
           [] n = 1 -> "first"
           [] n = 2 -> "second"
           [] n = 3 -> "third"
           [] n = 4 -> "fourth"
           [] n = 5 -> "fifth"
           [] n = 6 -> "sixth"
           [] n = 7 -> "seventh"
           [] n = 8 -> "eighth"
           [] n = 9 -> "ninth"
           [] n = 10 -> "10th"
           [] n = 11 -> "11th"
           [] n = 12 -> "12th"
           [] n = 13 -> "13th"
    ELSE CASE n % 10 = 1 -> ToString(n) \o "st"
           [] n % 10 = 2 -> ToString(n) \o "nd"
           [] n % 10 = 3 -> ToString(n) \o "rd"
           [] OTHER -> ToString(n) \o "th"

---------------------------------------------------------------------------
(* main.rs: decoding of the payload *)

\* truncation at the last NUL in place of the first
from_bytes_until_last_nul(bytes) ==
    IF \E i \in 1..Len(bytes) : bytes[i] = 0
    THEN LET last == CHOOSE i \in 1..Len(bytes) :
                         /\ bytes[i] = 0
                         /\ \A j \in (i + 1)..Len(bytes) : bytes[j] # 0
         IN  [ok |-> TRUE, bytes |-> SubSeq(bytes, 1, last - 1)]
    ELSE [ok |-> FALSE, bytes |-> <<>>]

\* CStr::from_bytes_until_nul(&buf[..len]): the bytes before the first NUL
from_bytes_until_nul(bytes) ==
    IF \E i \in 1..Len(bytes) : bytes[i] = 0
    THEN LET first == CHOOSE i \in 1..Len(bytes) :
                          /\ bytes[i] = 0
                          /\ \A j \in 1..(i - 1) : bytes[j] # 0
         IN  [ok |-> TRUE, bytes |-> SubSeq(bytes, 1, first - 1)]
    ELSE [ok |-> FALSE, bytes |-> <<>>]

IsCont(b) == b \in 128..191

\* CStr::to_str: UTF-8 validation, giving the code points
RECURSIVE to_str(_)
to_str(b) ==
    IF b = <<>> THEN [ok |-> TRUE, chars |-> <<>>]
    ELSE
      LET b0 == b[1]
          width == IF b0 < 128 THEN 1
                   ELSE IF b0 \in 194..223 THEN 2
                   ELSE IF b0 \in 224..239 THEN 3
                   ELSE IF b0 \in 240..244 THEN 4
                   ELSE 0
          wellFormed ==
              /\ width > 0
              /\ Len(b) >= width
              /\ \A i \in 2..width : IsCont(b[i])
              /\ (b0 = 224 => b[2] >= 160)
              /\ (b0 = 237 => b[2] <= 159)
              /\ (b0 = 240 => b[2] >= 144)
              /\ (b0 = 244 => b[2] <= 143)
      IN  IF ~wellFormed THEN [ok |-> FALSE, chars |-> <<>>]
          ELSE
            LET cp == CASE width = 1 -> b0
                        [] width = 2 -> (b0 - 192) * 64 + (b[2] - 128)
                        [] width = 3 -> (b0 - 224) * 4096 + (b[2] - 128) * 64
                                        + (b[3] - 128)
                        [] width = 4 -> (b0 - 240) * 262144 + (b[2] - 128) * 4096
                                        + (b[3] - 128) * 64 + (b[4] - 128)
                rest == to_str(SubSeq(b, width + 1, Len(b)))
            IN  IF rest.ok THEN [ok |-> TRUE, chars |-> <<cp>> \o rest.chars]
                ELSE rest

---------------------------------------------------------------------------
(* main.rs: the /ws/guess handler *)

Text(data) == [type |-> "Text", data |-> data]

Close == [type |-> "Close", data |-> ""]

WelcomeMsg == "Welcome to the guessing game! Enter a number between 1 and 100"

TooBigMsg == "Request too big"

CStrErrorMsg == "[CStr decode Error]"

Utf8ErrorMsg == "[UTF-8 Error]"

RangeHintMsg == "Please enter a number between 1 and 100"

TooHighMsg(n) == "Your " \o nth(n) \o " guess was too high"

TooLowMsg(n) == "Your " \o nth(n) \o " guess was too low"

WonMsg(s, n) ==
    "You guessed " \o ToString(s) \o " on your " \o nth(n)
        \o " try! Refresh to play again"

\* the secret computed without the + 1
SecretOf_unshifted(nanos) == rand(nanos) % 100

\* let secret = (rand() % 100) + 1, for the clock reading nanos
SecretOf(nanos) == (rand(nanos) % 100) + 1

\* an insert that keeps no other entry
insert_alone(map, k, v) == [x \in {k} |-> v]

\* BTreeMap::insert: the value stored under the key is replaced
insert(map, k, v) == [x \in DOMAIN map \cup {k} |-> IF x = k THEN v ELSE map[x]]

\* remove that leaves the entry in the map
remove_nothing(map, k) == map

\* BTreeMap::remove
remove(map, k) == [x \in DOMAIN map \ {k} |-> map[x]]

\* the size check with >= in place of >
TooBig_inclusive(l) == l >= MAX_LEN

\* if len > MAX_LEN
TooBig(l) == l > MAX_LEN

\* a rejecting path that also closes the connection
Rejection_closing(msg) == <<Text(msg), Close>>

\* the frames of a path that rejects the message and returns Ok(())
Rejection(msg) == <<Text(msg)>>

\* the arms with the texts of Greater and Less exchanged
Reply_swapped(ord, n, s) ==
    CASE ord = "Greater" -> <<Text(TooLowMsg(n))>>
      [] ord = "Less" -> <<Text(TooHighMsg(n))>>
      [] ord = "Equal" -> <<Text(WonMsg(s, n)), Close>>

\* the Equal arm closing before it sends its text
Reply_close_first(ord, n, s) ==
    CASE ord = "Greater" -> <<Text(TooHighMsg(n))>>
      [] ord = "Less" -> <<Text(TooLowMsg(n))>>
      [] ord = "Equal" -> <<Close, Text(WonMsg(s, n))>>

\* match session.guess(user_guess): the frames of the three arms
Reply(ord, n, s) ==
    CASE ord = "Greater" -> <<Text(TooHighMsg(n))>>
      [] ord = "Less" -> <<Text(TooLowMsg(n))>>
      [] ord = "Equal" -> <<Text(WonMsg(s, n)), Close>>

\* what the payload path does with buf[..len] once the read returned:
\* decode, parse, score, and the frames it goes on to send
Decoded(session, bytes) ==
    LET cstr == from_bytes_until_nul(bytes)
        str == to_str(cstr.bytes)
        user_guess == parse_guess(str.chars)
        r == guess(session, user_guess.val)
    IN  IF ~cstr.ok
        THEN [session |-> session, scored |-> NoScore,
              out |-> Rejection(CStrErrorMsg)]
        ELSE IF ~str.ok
        THEN [session |-> session, scored |-> NoScore,
              out |-> Rejection(Utf8ErrorMsg)]
        ELSE IF ~user_guess.some
        THEN [session |-> session, scored |-> NoScore,
              out |-> Rejection(RangeHintMsg)]
        ELSE [session |-> r.game,
              scored |-> [guess |-> user_guess.val, ord |-> r.ord, n |-> r.n],
              out |-> Reply(r.ord, r.n, secret(r.game))]

\* the handler's locals of connection c are dropped
Cleared(f, c, v) == [f EXCEPT ![c] = v]

\* the transport invokes the closure for connection c with event e
Invoke(c, e) ==
    /\ ~crashed
    /\ pc[c] = "idle"
    /\ pc' = [pc EXCEPT ![c] = "lock"]
    /\ ev' = [ev EXCEPT ![c] = e]
    /\ opened' = IF e = "new" THEN opened \cup {c}
                 ELSE IF e = "closed" THEN opened \ {c}
                 ELSE opened
    /\ UNCHANGED <<sessions, lockedBy, poisoned, crashed, len, buf, scored, out,
                   final, sent, res, entry, recvs, misses, alone,
                   engineVars, callVars>>

\* a transport that keeps open -> messages -> close for each identifier
Dispatch(c) ==
    \E e \in {"new", "msg", "closed"} :
        /\ (e = "new") <=> (c \notin opened)
        /\ Invoke(c, e)

\* a transport that delivers any event at any time
DispatchAny(c) ==
    \E e \in {"new", "msg", "closed"} : Invoke(c, e)

\* a lock() that does not wait for the guard of another handler
Lock_unguarded(c) ==
    /\ ~crashed
    /\ pc[c] = "lock"
    /\ IF poisoned
       THEN /\ pc' = [pc EXCEPT ![c] = "ret"]
            /\ res' = [res EXCEPT ![c] = "PanicPoisoned"]
            /\ UNCHANGED lockedBy
       ELSE /\ pc' = [pc EXCEPT ![c] = "enter"]
            /\ lockedBy' = c
            /\ UNCHANGED res
    /\ UNCHANGED <<sessions, poisoned, crashed, opened, ev, len, buf, scored, out,
                   final, sent, entry, recvs, misses, alone, engineVars, callVars>>

\* guessing_games.lock().unwrap()
Lock(c) ==
    /\ ~crashed
    /\ pc[c] = "lock"
    /\ lockedBy = NoOne
    /\ IF poisoned
       THEN /\ pc' = [pc EXCEPT ![c] = "ret"]
            /\ res' = [res EXCEPT ![c] = "PanicPoisoned"]
            /\ UNCHANGED lockedBy
       ELSE /\ pc' = [pc EXCEPT ![c] = "enter"]
            /\ lockedBy' = c
            /\ UNCHANGED res
    /\ UNCHANGED <<sessions, poisoned, crashed, opened, ev, len, buf, scored, out,
                   final, sent, entry, recvs, misses, alone,
                   engineVars, callVars>>

\* if ws.is_new(): insert a fresh game, then send the welcome message
OnNew(c) ==
    /\ ~crashed
    /\ pc[c] = "enter"
    /\ ev[c] = "new"
    /\ \E nanos \in NanosSamples :
           /\ sessions' = insert(sessions, c, new(SecretOf(nanos)))
           /\ alone' = [alone EXCEPT ![c] = new(SecretOf(nanos))]
    /\ out' = [out EXCEPT ![c] = <<Text(WelcomeMsg)>>]
    /\ final' = [final EXCEPT ![c] = "Ok"]
    /\ pc' = [pc EXCEPT ![c] = "send"]
    /\ misses' = [misses EXCEPT ![c] = 0]
    /\ UNCHANGED <<lockedBy, poisoned, crashed, opened, ev, len, buf, scored,
                   sent, res, entry, recvs, engineVars, callVars>>

\* else if ws.is_closed(): remove the game
OnClosed(c) ==
    /\ ~crashed
    /\ pc[c] = "enter"
    /\ ev[c] = "closed"
    /\ sessions' = remove(sessions, c)
    /\ pc' = [pc EXCEPT ![c] = "ret"]
    /\ res' = [res EXCEPT ![c] = "Ok"]
    /\ misses' = [misses EXCEPT ![c] = 0]
    /\ alone' = [alone EXCEPT ![c] = NoGame]
    /\ UNCHANGED <<lockedBy, poisoned, crashed, opened, ev, len, buf, scored, out,
                   final, sent, entry, recvs, engineVars, callVars>>

\* sessions.get_mut(&ws.session()).unwrap(), then the size probe is called
OnMessage(c) ==
    /\ ~crashed
    /\ pc[c] = "enter"
    /\ ev[c] = "msg"
    /\ IF c \in DOMAIN sessions
       THEN /\ pc' = [pc EXCEPT ![c] = "probe"]
            /\ entry' = [entry EXCEPT ![c] = sessions[c]]
            /\ recvs' = [recvs EXCEPT ![c] = <<0>>]
            /\ UNCHANGED res
       ELSE /\ pc' = [pc EXCEPT ![c] = "ret"]
            /\ res' = [res EXCEPT ![c] = "PanicNoEntry"]
            /\ UNCHANGED <<entry, recvs>>
    /\ UNCHANGED <<sessions, lockedBy, poisoned, crashed, opened, ev, len, buf,
                   scored, out, final, sent, misses, alone,
                   engineVars, callVars>>

\* ws.recv(&mut []) returns, then the check against MAX_LEN and, when the
\* frame fits, the call of ws.recv(buf.as_mut()) with the MAX_LEN-byte buffer
Probe(c) ==
    /\ ~crashed
    /\ pc[c] = "probe"
    /\ \E ok \in BOOLEAN, l \in PayloadLens :
           IF ~ok
           THEN /\ pc' = [pc EXCEPT ![c] = "ret"]
                /\ res' = [res EXCEPT ![c] = "Err"]
                /\ UNCHANGED <<len, out, final, recvs>>
           ELSE /\ len' = [len EXCEPT ![c] = l]
                /\ IF TooBig(l)
                   THEN /\ out' = [out EXCEPT ![c] = <<Text(TooBigMsg), Close>>]
                        /\ final' = [final EXCEPT ![c] = "ErrSize"]
                        /\ pc' = [pc EXCEPT ![c] = "send"]
                        /\ UNCHANGED recvs
                   ELSE /\ pc' = [pc EXCEPT ![c] = "read"]
                        /\ recvs' = [recvs EXCEPT ![c] = Append(recvs[c], MAX_LEN)]
                        /\ UNCHANGED <<out, final>>
                /\ UNCHANGED res
    /\ UNCHANGED <<sessions, lockedBy, poisoned, crashed, opened, ev, buf, scored,
                   sent, entry, misses, alone,
                   engineVars, callVars>>

\* ws.recv(buf.as_mut()) returns, then decoding, parsing and session.guess
Read(c) ==
    /\ ~crashed
    /\ pc[c] = "read"
    /\ \E ok \in BOOLEAN, bytes \in {b \in Payloads : Len(b) = len[c]} :
           IF ~ok
           THEN /\ pc' = [pc EXCEPT ![c] = "ret"]
                /\ res' = [res EXCEPT ![c] = "Err"]
                /\ UNCHANGED <<sessions, buf, scored, out, final, misses, alone>>
           ELSE LET d == Decoded(sessions[c], bytes)
                IN  /\ d.session.guesses <= MaxGuesses
                    /\ buf' = [buf EXCEPT ![c] = bytes]
                    /\ sessions' = [sessions EXCEPT ![c] = d.session]
                    /\ scored' = [scored EXCEPT ![c] = d.scored]
                    /\ out' = [out EXCEPT ![c] = d.out]
                    /\ final' = [final EXCEPT ![c] = "Ok"]
                    /\ pc' = [pc EXCEPT ![c] = "send"]
                    /\ misses' = [misses EXCEPT ![c] =
                           IF d.scored.ord \in {"Greater", "Less"}
                           THEN misses[c] + 1 ELSE misses[c]]
                    /\ alone' = [alone EXCEPT ![c] = Decoded(alone[c], bytes).session]
                    /\ UNCHANGED res
    /\ UNCHANGED <<lockedBy, poisoned, crashed, opened, ev, len, sent, entry,
                   recvs, engineVars, callVars>>

\* ws.send(..)? was called with the next frame of the taken branch and returns
Send(c) ==
    /\ ~crashed
    /\ pc[c] = "send"
    /\ sent' = [sent EXCEPT ![c] = Append(sent[c], Head(out[c]))]
    /\ \E ok \in BOOLEAN :
           IF ~ok
           THEN /\ pc' = [pc EXCEPT ![c] = "ret"]
                /\ res' = [res EXCEPT ![c] = "Err"]
                /\ out' = [out EXCEPT ![c] = <<>>]
           ELSE /\ out' = [out EXCEPT ![c] = Tail(out[c])]
                /\ IF Len(out[c]) = 1
                   THEN /\ pc' = [pc EXCEPT ![c] = "ret"]
                        /\ res' = [res EXCEPT ![c] = final[c]]
                   ELSE UNCHANGED <<pc, res>>
    /\ UNCHANGED <<sessions, lockedBy, poisoned, crashed, opened, ev, len, buf,
                   scored, final, entry, recvs, misses, alone,
                   engineVars, callVars>>

Panicked(r) == r \in {"PanicNoEntry", "PanicPoisoned"}

\* the closure is left: the MutexGuard is dropped (poisoning the mutex when it
\* is dropped by a panic), or the panic aborts the process
Return(c) ==
    /\ ~crashed
    /\ pc[c] = "ret"
    /\ \E abort \in (IF Panicked(res[c]) THEN BOOLEAN ELSE {FALSE}) :
           /\ crashed' = abort
           /\ poisoned' = (poisoned \/ (~abort /\ Panicked(res[c]) /\ lockedBy = c))
    /\ lockedBy' = IF lockedBy = c THEN NoOne ELSE lockedBy
    /\ pc' = [pc EXCEPT ![c] = "idle"]
    /\ ev' = Cleared(ev, c, "none")
    /\ len' = Cleared(len, c, NoLen)
    /\ buf' = Cleared(buf, c, NoBuf)
    /\ scored' = Cleared(scored, c, NoScore)
    /\ out' = Cleared(out, c, <<>>)
    /\ final' = Cleared(final, c, "none")
    /\ sent' = Cleared(sent, c, <<>>)
    /\ res' = Cleared(res, c, "none")
    /\ entry' = Cleared(entry, c, NoGame)
    /\ recvs' = Cleared(recvs, c, <<>>)
    /\ UNCHANGED <<sessions, opened, misses, alone,
                   engineVars, callVars>>

---------------------------------------------------------------------------
(* guessing_game.rs: the engine driven as its unit tests drive it *)

NoCall == [guess |-> 0, ord |-> "None", n |-> 0, late |-> FALSE]

\* let (cmp, count) = game.guess(g)
EngineGuess ==
    /\ game.guesses < MaxCalls
    /\ \E g \in 0..MaxGuessValue :
           LET r == guess(game, g)
           IN  /\ game' = r.game
               /\ lastCall' = [guess |-> g, ord |-> r.ord, n |-> r.n,
                               late |-> game.done]
    /\ UNCHANGED <<serverVars, callVars>>

---------------------------------------------------------------------------
(* Function specifications: one call of a function on an argument drawn by Init *)

Returned(v) == [done |-> TRUE, val |-> v]

\* all sequences over S of length 0..n
Strings(S, n) == UNION {[1..k -> S] : k \in 0..n}

\* u32 Display: the decimal digits of n as code points, most significant first
RECURSIVE to_string(_)
to_string(n) ==
    IF n < 10 THEN <<48 + n>>
    ELSE Append(to_string(n \div 10), 48 + (n % 10))

\* NUL, space, NO-BREAK SPACE, '+', '-', '0', '1', '5', 'a'
InputChars == {0, 32, 160, 43, 45, 48, 49, 53, 97}

\* NUL (an ASCII control character) and space (whitespace)
PadChars == {0, 32}

\* the strings of the unit tests of parse_guess, further strings with a sign,
\* padding or leading zeros, and numbers at the limits of u32
TestInputs ==
    { <<>>,                                          \* ""
      <<97, 98, 99>>,                                \* "abc"
      <<48>>,                                        \* "0"
      <<49, 48, 49>>,                                \* "101"
      <<45, 53>>,                                    \* "-5"
      <<53, 48>>,                                    \* "50"
      <<32, 32, 52, 50, 32, 32>>,                    \* "  42  "
      <<49>>,                                        \* "1"
      <<49, 48, 48>>,                                \* "100"
      <<48, 48, 48, 48, 48, 48, 48, 48, 48, 53, 48>>, \* "00000000050"
      <<52, 50, 57, 52, 57, 54, 55, 50, 57, 53>>,    \* "4294967295", u32::MAX
      <<52, 50, 57, 52, 57, 54, 55, 50, 57, 54>>,    \* "4294967296"
      <<52, 50, 57, 52, 57, 54, 55, 51, 52, 54>>     \* "4294967346", 50 mod 2^32
    }

\* a number of 1..100 in decimal between two runs of padding characters
PaddedNumbers ==
    { lead \o to_string(n) \o trail :
          n \in 1..100, lead \in Strings(PadChars, MaxPad),
          trail \in Strings(PadChars, MaxPad) }

ParseInputs == Strings(InputChars, MaxInputLen) \cup PaddedNumbers \cup TestInputs

\* GuessingGame::parse_guess(input)
ParseCall ==
    /\ arg.fn = "parse_guess"
    /\ ~ret.done
    /\ ret' = Returned(parse_guess(arg.input))
    /\ UNCHANGED <<serverVars, engineVars, arg>>

\* nth(n)
NthCall ==
    /\ arg.fn = "nth"
    /\ ~ret.done
    /\ ret' = Returned(nth(arg.n))
    /\ UNCHANGED <<serverVars, engineVars, arg>>

\* Duration::subsec_nanos is below one second
MaxNanos == 999999999

\* one clock reading for each value rand can return, and the last reading
NanosRange == {r * 65537 : r \in 0..(MaxNanos \div 65537)} \cup {MaxNanos}

\* GuessingGame::new((rand() % 100) + 1) for the clock reading arg.nanos
NewGameCall ==
    /\ arg.fn = "new"
    /\ ~ret.done
    /\ ret' = Returned(new(SecretOf(arg.nanos)))
    /\ UNCHANGED <<serverVars, engineVars, arg>>

\* NUL, '0', '5', 'a', and a byte no UTF-8 text holds
ByteValues == {0, 48, 53, 97, 255}

\* a session as get_mut can find it: fresh, or completed by its first guess
FoundSessions == {new(50), [guesses |-> 1, secret |-> 50, done |-> TRUE]}

\* the payload path on the session arg.session with buf[..len] = arg.bytes
DecodeCall ==
    /\ arg.fn = "decode"
    /\ ~ret.done
    /\ ret' = Returned(Decoded(arg.session, arg.bytes))
    /\ UNCHANGED <<serverVars, engineVars, arg>>

---------------------------------------------------------------------------
(* Specifications *)

InitServer ==
    /\ sessions = <<>>
    /\ lockedBy = NoOne
    /\ poisoned = FALSE
    /\ crashed = FALSE
    /\ opened = {}
    /\ pc = [c \in Conns |-> "idle"]
    /\ ev = [c \in Conns |-> "none"]
    /\ len = [c \in Conns |-> NoLen]
    /\ buf = [c \in Conns |-> NoBuf]
    /\ scored = [c \in Conns |-> NoScore]
    /\ out = [c \in Conns |-> <<>>]
    /\ final = [c \in Conns |-> "none"]
    /\ sent = [c \in Conns |-> <<>>]
    /\ res = [c \in Conns |-> "none"]
    /\ entry = [c \in Conns |-> NoGame]
    /\ recvs = [c \in Conns |-> <<>>]
    /\ misses = [c \in Conns |-> 0]
    /\ alone = [c \in Conns |-> NoGame]

Init ==
    /\ InitServer
    /\ game = NoGame
    /\ lastCall = NoCall
    /\ arg = NoArg
    /\ ret = NoRet

\* let mut game = GuessingGame::new(secret)
InitEngine ==
    /\ InitServer
    /\ \E s \in 1..100 : game = new(s)
    /\ lastCall = NoCall
    /\ arg = NoArg
    /\ ret = NoRet

InitParse ==
    /\ InitServer
    /\ game = NoGame
    /\ lastCall = NoCall
    /\ \E input \in ParseInputs : arg = [fn |-> "parse_guess", input |-> input]
    /\ ret = NoRet

InitNth ==
    /\ InitServer
    /\ game = NoGame
    /\ lastCall = NoCall
    /\ \E n \in 0..MaxOrdinal : arg = [fn |-> "nth", n |-> n]
    /\ ret = NoRet

\* either the server in its initial state, or one clock reading for a call
InitSecret ==
    /\ InitServer
    /\ game = NoGame
    /\ lastCall = NoCall
    /\ arg \in {NoArg} \cup {[fn |-> "new", nanos |-> n] : n \in NanosRange}
    /\ ret = NoRet

InitDecode ==
    /\ InitServer
    /\ game = NoGame
    /\ lastCall = NoCall
    /\ \E s \in FoundSessions, b \in Strings(ByteValues, MaxBytes) :
           arg = [fn |-> "decode", session |-> s, bytes |-> b]
    /\ ret = NoRet

Handler(c) ==
    \/ Lock(c)
    \/ OnNew(c)
    \/ OnClosed(c)
    \/ OnMessage(c)
    \/ Probe(c)
    \/ Read(c)
    \/ Send(c)
    \/ Return(c)

Next == \E c \in Conns : Dispatch(c) \/ Handler(c)

NextMisordered == \E c \in Conns : DispatchAny(c) \/ Handler(c)

NextEngine == EngineGuess

Spec == Init /\ [][Next]_vars

SpecMisordered == Init /\ [][NextMisordered]_vars

SpecEngine == InitEngine /\ [][NextEngine]_vars

NextParse == ParseCall

SpecParse == InitParse /\ [][NextParse]_vars

NextNth == NthCall

\* the server runs from its initial state; a clock reading is used by one call
NextSecret == (arg = NoArg /\ Next) \/ NewGameCall

SpecSecret == InitSecret /\ [][NextSecret]_vars

NextDecode == DecodeCall

SpecDecode == InitDecode /\ [][NextDecode]_vars

SpecNth == InitNth /\ [][NextNth]_vars

---------------------------------------------------------------------------
(* Claims about the engine, checked under SpecEngine *)

\* C1: a guess g submitted to a game with secret s that is not yet completed
\* returns Less iff g < s, Greater iff g > s and Equal iff g = s, and the game
\* is completed after the call exactly when the result is Equal.
C1_GuessCompares ==
    (lastCall.ord # "None" /\ ~lastCall.late) =>
        LET g == lastCall.guess
            s == game.secret
        IN  /\ (lastCall.ord = "Less") <=> (g < s)
            /\ (lastCall.ord = "Greater") <=> (g > s)
            /\ (lastCall.ord = "Equal") <=> (g = s)
            /\ lastCall.ord \in {"Less", "Greater", "Equal"}
            /\ game.done <=> (lastCall.ord = "Equal")

\* the three unit tests: secret 50 and the guesses 75, 25, 50 seen on a fresh game
C1_Witness ==
    /\ game.secret = 50
    /\ ~lastCall.late
    /\ game.guesses = 2
    /\ lastCall = [guess |-> 50, ord |-> "Equal", n |-> 2, late |-> FALSE]
    /\ game.done

\* C2: once a game is completed, every later guess, whatever its value, leaves
\* guess_count, secret and completed unchanged and returns (Equal, guess_count),
\* the count the winning guess returned.
C2_CompletedIsIdempotent ==
    [][game.done =>
         /\ game' = game
         /\ lastCall'.ord = "Equal"
         /\ lastCall'.n = game.guesses
         /\ lastCall'.late]_vars

\* a guess other than the secret was made on a game that was already completed
C2_Witness ==
    /\ game.done
    /\ lastCall.late
    /\ lastCall.guess # game.secret
    /\ lastCall.ord = "Equal"
    /\ lastCall.n = game.guesses

---------------------------------------------------------------------------
(* Claims about the handler *)

\* the handler of connection c has finished the body of an invocation for event e
AtReturn(c, e) == pc[c] = "ret" /\ ev[c] = e

\* the size probe of the invocation returned Ok
Probed(c) == len[c] # NoLen

\* the payload read of the invocation returned Ok
WasRead(c) == buf[c] # NoBuf

\* C3: whenever a handler is inside a transport recv (size probe or payload read)
\* or a transport send, the registry lock is free.
C3_NoLockAcrossIO ==
    \A c \in Conns : pc[c] \in {"probe", "read", "send"} => lockedBy = NoOne

\* C4: a message event for an identifier with no registry entry fails only that
\* invocation: the process keeps running and no other invocation fails on the
\* registry lock.
C4_OnlyThatInvocationFails ==
    /\ ~crashed
    /\ \A c \in Conns : res[c] # "PanicPoisoned"

\* C5: a message event sends "Request too big" followed immediately by a close
\* frame if and only if the probed length is greater than 8; then the payload is
\* never read, the handler aborts and guess_count and completed are unchanged.
C5_TooBigIffOver8 ==
    \A c \in Conns :
        /\ (AtReturn(c, "msg") /\ Probed(c)) =>
               /\ (sent[c] = <<Text("Request too big"), Close>>) <=> (len[c] > 8)
               /\ (len[c] > 8) =>
                      /\ res[c] \in {"ErrSize", "Err"}
                      /\ sessions[c].guesses = entry[c].guesses
                      /\ sessions[c].done = entry[c].done
        /\ (Probed(c) /\ len[c] > 8) => (pc[c] \in {"send", "ret"} /\ ~WasRead(c))

\* C5 as amended: the text frame "Request too big" is sent if and only if the
\* probed length is greater than 8, and the close frame follows it immediately
\* unless the send of the text frame fails, in which case the handler returns the
\* transport error and sends no close frame; the payload is never read, the
\* handler aborts and guess_count and completed are unchanged.
C5_TooBigIffOver8UnlessSendFails ==
    \A c \in Conns :
        /\ (AtReturn(c, "msg") /\ Probed(c)) =>
               /\ (sent[c] # <<>> /\ sent[c][1] = Text("Request too big"))
                      <=> (len[c] > 8)
               /\ (len[c] > 8) =>
                      /\ \/ sent[c] = <<Text("Request too big"), Close>>
                         \/ /\ sent[c] = <<Text("Request too big")>>
                            /\ res[c] = "Err"
                      /\ res[c] \in {"ErrSize", "Err"}
                      /\ sessions[c].guesses = entry[c].guesses
                      /\ sessions[c].done = entry[c].done
        /\ (Probed(c) /\ len[c] > 8) => (pc[c] \in {"send", "ret"} /\ ~WasRead(c))

\* a 9-byte frame on a session with one scored guess was answered by both frames
C5_Witness ==
    \E c \in Conns :
        /\ AtReturn(c, "msg")
        /\ len[c] = 9
        /\ sent[c] = <<Text("Request too big"), Close>>
        /\ res[c] = "ErrSize"
        /\ entry[c].guesses = 1
        /\ sessions[c] = entry[c]

\* the frames the claim names for a scored guess
ExpectedReply(ord, n, s) ==
    CASE ord = "Greater" -> <<Text("Your " \o nth(n) \o " guess was too high")>>
      [] ord = "Less" -> <<Text("Your " \o nth(n) \o " guess was too low")>>
      [] ord = "Equal" ->
           <<Text("You guessed " \o ToString(s) \o " on your " \o nth(n)
                      \o " try! Refresh to play again"),
             Close>>

\* C6: when a valid guess is scored the handler sends exactly one text frame
\* chosen by the ordering, with no close frame for Greater and Less, and the
\* winning text followed by a close frame for Equal.
C6_ReplyByOrdering ==
    \A c \in Conns :
        (AtReturn(c, "msg") /\ scored[c] # NoScore) =>
            sent[c] = ExpectedReply(scored[c].ord, scored[c].n, sessions[c].secret)

\* C6 as amended: as C6, except that for Equal the close frame follows the
\* winning text only if the send of that text did not fail; when it fails the
\* handler returns the transport error and sends no close frame.
C6_ReplyByOrderingUnlessSendFails ==
    \A c \in Conns :
        (AtReturn(c, "msg") /\ scored[c] # NoScore) =>
            LET expected == ExpectedReply(scored[c].ord, scored[c].n,
                                          sessions[c].secret)
            IN  \/ sent[c] = expected
                \/ /\ scored[c].ord = "Equal"
                   /\ res[c] = "Err"
                   /\ sent[c] = <<expected[1]>>

\* the scenario of the spec: secret 50, 75 was too high, then 50 wins on the
\* second try and the close frame follows the text
C6_Witness ==
    \E c \in Conns :
        /\ AtReturn(c, "msg")
        /\ sessions[c].secret = 50
        /\ scored[c] = [guess |-> 50, ord |-> "Equal", n |-> 2]
        /\ sent[c] = <<Text("You guessed 50 on your second try! Refresh to play again"),
                       Close>>
        /\ res[c] = "Ok"

\* C7: a C-string decode failure, a UTF-8 decode failure and a guess that is not
\* a number in [1,100] each produce exactly one text frame, the one of their
\* category, and no close frame, and leave the session unchanged.
C7_RejectionsSendOneText ==
    \A c \in Conns :
        (AtReturn(c, "msg") /\ WasRead(c)) =>
            LET cstr == from_bytes_until_nul(buf[c])
                str == to_str(cstr.bytes)
                rejected == ~cstr.ok \/ ~str.ok \/ ~parse_guess(str.chars).some
            IN  /\ rejected <=> (scored[c] = NoScore)
                /\ rejected =>
                       /\ sent[c] = <<Text(IF ~cstr.ok THEN "[CStr decode Error]"
                                           ELSE IF ~str.ok THEN "[UTF-8 Error]"
                                           ELSE "Please enter a number between 1 and 100")>>
                       /\ sessions[c] = entry[c]

\* "a" NUL on a session with one scored guess got the range hint
C7_Witness ==
    \E c \in Conns :
        /\ AtReturn(c, "msg")
        /\ buf[c] = <<97, 0>>
        /\ sent[c] = <<Text("Please enter a number between 1 and 100")>>
        /\ entry[c].guesses = 1
        /\ sessions[c] = entry[c]
        /\ res[c] = "Ok"

\* C8: a valid guess arriving on a connection whose game is already completed
\* is answered without a close frame and the session is not scored again.
C8_LateGuessKeepsConnectionOpen ==
    \A c \in Conns :
        (ev[c] = "msg" /\ scored[c] # NoScore /\ entry[c].done) =>
            /\ \A i \in 1..Len(sent[c]) : sent[c][i] # Close
            /\ sessions[c] = entry[c]

\* C9: an open event for an identifier already present in the registry leaves
\* the existing session's secret, guess_count and completed flag unchanged.
C9_OpenKeepsExistingEntry ==
    [][\A c \in Conns :
           (/\ pc[c] = "enter"
            /\ ev[c] = "new"
            /\ pc'[c] = "send"
            /\ c \in DOMAIN sessions)
           => (c \in DOMAIN sessions' /\ sessions'[c] = sessions[c])]_vars

\* connection c has been opened and not yet closed, as far as its handler has
\* got: its open event has passed the insert and its close event, if one was
\* delivered, has not yet passed the remove
OpenNotClosed(c) ==
    \/ c \in opened /\ ~(ev[c] = "new" /\ pc[c] \in {"lock", "enter"})
    \/ ev[c] = "closed" /\ pc[c] \in {"lock", "enter"}

\* the step is the registry operation of connection c's invocation for event e
RegistryStep(c, e) == pc[c] = "enter" /\ ev[c] = e /\ pc'[c] # "enter"

\* C10: with open -> messages -> close per connection, the key set of the
\* registry is the set of connections opened and not yet closed: an open adds
\* exactly one entry, a close removes exactly that connection's entry, and no
\* other step adds or removes an entry.
C10_RegistryTracksConnections ==
    /\ [](DOMAIN sessions = {c \in Conns : OpenNotClosed(c)})
    /\ [](((\A c \in Conns : pc[c] = "idle")) => DOMAIN sessions = opened)
    /\ [][\A c \in Conns :
              /\ RegistryStep(c, "new") =>
                     /\ c \notin DOMAIN sessions
                     /\ DOMAIN sessions' = DOMAIN sessions \cup {c}
                     /\ Cardinality(DOMAIN sessions')
                            = Cardinality(DOMAIN sessions) + 1
              /\ RegistryStep(c, "closed") =>
                     /\ c \in DOMAIN sessions
                     /\ DOMAIN sessions' = DOMAIN sessions \ {c}
                     /\ Cardinality(DOMAIN sessions')
                            = Cardinality(DOMAIN sessions) - 1
              /\ (\A d \in Conns :
                      ~RegistryStep(d, "new") /\ ~RegistryStep(d, "closed"))
                     => DOMAIN sessions' = DOMAIN sessions]_vars

\* connection 1 has just been removed by its close event while connection 2,
\* with one guess scored, stays in the registry
C10_Witness ==
    /\ AtReturn(1, "closed")
    /\ DOMAIN sessions = {2}
    /\ opened = {2}
    /\ sessions[2].guesses = 1

---------------------------------------------------------------------------
(* Claims about parse_guess, checked under SpecParse *)

\* ASCII control characters: U+0000..U+001F and U+007F
AsciiControl == (0..31) \cup {127}

\* the characters with the Unicode White_Space property
WhiteSpace ==
    {9, 10, 11, 12, 13, 32, 133, 160, 5760, 8192, 8193, 8194, 8195, 8196, 8197,
     8198, 8199, 8200, 8201, 8202, 8232, 8233, 8239, 8287, 12288}

Stripped(ch) == ch \in AsciiControl \cup WhiteSpace

\* what is left of s once the stripped characters at both ends are gone
Remainder(s) ==
    LET kept == {i \in 1..Len(s) : ~Stripped(s[i])}
    IN  IF kept = {} THEN <<>>
        ELSE SubSeq(s, CHOOSE i \in kept : \A j \in kept : i <= j,
                       CHOOSE i \in kept : \A j \in kept : i >= j)

\* r is an optional sign followed by one or more decimal digits
IsInteger(r) ==
    /\ r # <<>>
    /\ LET body == IF r[1] \in {43, 45} THEN Tail(r) ELSE r
       IN  /\ body # <<>>
           /\ \A i \in 1..Len(body) : body[i] \in 48..57

\* the value of the integer r when it lies in 1..100, and 0 otherwise
RangeValue(r) ==
    LET body == IF r[1] \in {43, 45} THEN Tail(r) ELSE r
        nz == {i \in 1..Len(body) : body[i] # 48}
        first == IF nz = {} THEN Len(body) + 1
                 ELSE CHOOSE i \in nz : \A j \in nz : i <= j
        sig == SubSeq(body, first, Len(body))
        v == CASE Len(sig) = 1 -> sig[1] - 48
               [] Len(sig) = 2 -> 10 * (sig[1] - 48) + (sig[2] - 48)
               [] Len(sig) = 3 -> 100 * (sig[1] - 48) + 10 * (sig[2] - 48)
                                  + (sig[3] - 48)
               [] OTHER -> 0
    IN  IF r[1] # 45 /\ v \in 1..100 THEN v ELSE 0

ParseReturned == arg.fn = "parse_guess" /\ ret.done

\* C11: parse_guess accepts its input if and only if, once leading and trailing
\* ASCII control characters and whitespace are stripped, the remainder is a
\* base-10 integer with a value in 1..100, and then returns that value; the
\* inputs "", "abc", "0", "101" and "-5" are rejected.
C11_ParseAcceptsExactlyRange ==
    ParseReturned =>
        LET r == Remainder(arg.input)
            inRange == IsInteger(r) /\ RangeValue(r) # 0
        IN  /\ ret.val.some <=> inRange
            /\ ret.val.some => ret.val.val = RangeValue(r)
            /\ arg.input \in {<<>>, <<97, 98, 99>>, <<48>>, <<49, 48, 49>>, <<45, 53>>}
                   => ~ret.val.some

\* " 100" with a NO-BREAK SPACE in front was accepted as 100
C11_Witness ==
    /\ ParseReturned
    /\ arg.input = <<160, 49, 48, 48>>
    /\ ret.val = [some |-> TRUE, val |-> 100]

\* the decimal text of each n in 1..100
DecimalText == [n \in 1..100 |-> to_string(n)]

\* C12: for every n in 1..100 the decimal text of n, surrounded by any number
\* of leading and trailing whitespace or ASCII control characters, parses to
\* Some(n).
C12_PaddedNumberRoundTrips ==
    ParseReturned =>
        \A i \in 1..Len(arg.input), j \in 1..Len(arg.input) :
            ( /\ \A k \in 1..(i - 1) : Stripped(arg.input[k])
              /\ \A k \in (j + 1)..Len(arg.input) : Stripped(arg.input[k]) )
                => \A n \in 1..100 :
                       SubSeq(arg.input, i, j) = DecimalText[n]
                           => ret.val = [some |-> TRUE, val |-> n]

\* NUL, space, "100", space, NUL came back as Some(100)
C12_Witness ==
    /\ ParseReturned
    /\ arg.input = <<0, 32, 49, 48, 48, 32, 0>>
    /\ ret.val = [some |-> TRUE, val |-> 100]

---------------------------------------------------------------------------
(* Claims about nth, checked under SpecNth *)

NthReturned == arg.fn = "nth" /\ ret.done

\* C13: ordinal(111) is "111th": an attempt number above 13 whose decimal form
\* ends in 11 gets the suffix "th".
C13_Ordinal111IsTh ==
    (NthReturned /\ arg.n = 111) => ret.val = "111th"

\* the literal forms of 0..13, in order
LiteralForms ==
    <<"zeroth", "first", "second", "third", "fourth", "fifth", "sixth", "seventh",
      "eighth", "ninth", "10th", "11th", "12th", "13th">>

DigitText == <<"0", "1", "2", "3", "4", "5", "6", "7", "8", "9">>

\* the decimal digits of n as a string
RECURSIVE DecimalDigits(_)
DecimalDigits(n) ==
    IF n < 10 THEN DigitText[n + 1]
    ELSE DecimalDigits(n \div 10) \o DigitText[(n % 10) + 1]

SuffixByLastDigit(n) ==
    IF n % 10 = 1 THEN "st"
    ELSE IF n % 10 = 2 THEN "nd"
    ELSE IF n % 10 = 3 THEN "rd"
    ELSE "th"

\* C14: ordinal(n) is the fixed literal form for every n in 0..13, and for
\* every n >= 14 the decimal digits of n followed by the suffix selected by
\* n % 10 alone: 1 gives "st", 2 gives "nd", 3 gives "rd", anything else "th".
C14_OrdinalByTableThenLastDigit ==
    NthReturned =>
        IF arg.n <= 13
        THEN ret.val = LiteralForms[arg.n + 1]
        ELSE ret.val = DecimalDigits(arg.n) \o SuffixByLastDigit(arg.n)

\* nth(112) returned "112nd": the last digit alone selects the suffix
C14_Witness ==
    /\ NthReturned
    /\ arg.n = 112
    /\ ret.val = "112nd"

---------------------------------------------------------------------------
(* Further claims about the handler *)

\* C15: a payload within the size limit that consists only of the ASCII digits
\* of a number in 1..100, with no terminator byte, is accepted and scored as a
\* guess rather than answered with a decode error.
C15_UnterminatedDigitsAreScored ==
    \A c \in Conns :
        ( /\ ev[c] = "msg"
          /\ WasRead(c)
          /\ Len(buf[c]) <= 8
          /\ \E n \in 1..100 : buf[c] = DecimalText[n] )
            => /\ scored[c] # NoScore
               /\ sent[c] \o out[c] # <<Text("[CStr decode Error]")>>

\* C16: every session stored in the registry has a secret in 1..100, whatever
\* the clock-derived random source returns, and the secret of a session does
\* not change between its open and its close event.
C16_SecretInRangeAndFixed ==
    /\ [](\A c \in DOMAIN sessions : sessions[c].secret \in 1..100)
    /\ []((arg.fn = "new" /\ ret.done) => ret.val.secret \in 1..100)
    /\ [][\A c \in Conns :
             (c \in DOMAIN sessions /\ c \in DOMAIN sessions')
                 => sessions'[c].secret = sessions[c].secret]_vars

\* the clock reading 99 * 65537 makes rand() 99 and the secret 100
C16_Witness ==
    /\ arg.fn = "new"
    /\ arg.nanos = 6488163
    /\ ret.done
    /\ ret.val = [guesses |-> 0, secret |-> 100, done |-> FALSE]

\* C17: on an open event the registry gains a session with guess_count 0 and
\* completed false, and exactly one text frame, the welcome message, is sent and
\* no close frame; on a close event no frame of any kind is sent.
C17_OpenSendsWelcomeCloseSendsNothing ==
    \A c \in Conns :
        /\ AtReturn(c, "new") =>
               /\ c \in DOMAIN sessions
               /\ sessions[c].guesses = 0
               /\ ~sessions[c].done
               /\ sent[c] = <<Text("Welcome to the guessing game! Enter a number between 1 and 100")>>
        /\ ev[c] = "new" => \A i \in 1..Len(sent[c]) : sent[c][i].type # "Close"
        /\ ev[c] = "closed" => sent[c] = <<>> /\ out[c] = <<>>

\* the open event of connection 1 returned Ok while connection 2 is closing
C17_Witness ==
    /\ AtReturn(1, "new")
    /\ res[1] = "Ok"
    /\ sessions[1] = [guesses |-> 0, secret |-> 50, done |-> FALSE]
    /\ sent[1] = <<Text(WelcomeMsg)>>
    /\ ev[2] = "closed"

\* C18: in one message event the transport's receive is called in a fixed
\* order: first exactly one probe with a zero-length buffer, then the size check
\* against 8, then at most one payload read. The payload is read exactly once
\* when the reported length is at most 8 and never when it is greater or the
\* probe fails, and it is never read before the size check.
C18_ProbeThenAtMostOneRead ==
    \A c \in Conns :
        /\ recvs[c] \in {<<>>, <<0>>, <<0, 8>>}
        /\ ev[c] # "msg" => recvs[c] = <<>>
        /\ Len(recvs[c]) = 2 => Probed(c) /\ len[c] <= 8
        /\ AtReturn(c, "msg") =>
               recvs[c] = IF Probed(c) /\ len[c] <= 8 THEN <<0, 8>> ELSE <<0>>

\* a frame of exactly 8 bytes was probed and then read
C18_Witness ==
    /\ AtReturn(1, "msg")
    /\ len[1] = 8
    /\ WasRead(1)
    /\ recvs[1] = <<0, 8>>

\* the step scores a valid guess on connection c's session, not yet completed
ScoresOpenGame(c) ==
    /\ pc[c] = "read"
    /\ pc'[c] = "send"
    /\ scored'[c] # NoScore
    /\ ~sessions[c].done

\* C19: on one connection guess_count never decreases; it grows by exactly one
\* for each valid guess scored while the session is not completed (repeated
\* identical wrong guesses each count) and by zero for every other message;
\* completed never returns from true to false; so after k non-winning scored
\* guesses on a fresh session guess_count is k.
C19_GuessCountCountsScoredGuesses ==
    /\ [][\A c \in Conns :
             (c \in DOMAIN sessions /\ c \in DOMAIN sessions') =>
                 /\ sessions'[c].guesses >= sessions[c].guesses
                 /\ sessions'[c].guesses =
                        sessions[c].guesses + (IF ScoresOpenGame(c) THEN 1 ELSE 0)
                 /\ sessions[c].done => sessions'[c].done]_vars
    /\ [](\A c \in DOMAIN sessions :
              ~sessions[c].done => sessions[c].guesses = misses[c])

\* the same wrong guess, "1", was scored twice: the second one counted too
C19_Witness ==
    /\ AtReturn(1, "msg")
    /\ buf[1] = <<49, 0>>
    /\ entry[1].guesses = 1
    /\ scored[1] = [guess |-> 1, ord |-> "Less", n |-> 2]
    /\ sessions[1].guesses = 2
    /\ misses[1] = 2

---------------------------------------------------------------------------
(* Claim about the decoding of the payload, checked under SpecDecode *)

DecodeReturned == arg.fn = "decode" /\ ret.done

\* C20: bytes after the first zero byte are ignored: two payloads of length at
\* most 8 that agree on every byte up to and including their first zero byte
\* produce the same reply frames and the same session change.
C20_BytesAfterFirstNulIgnored ==
    DecodeReturned =>
        \A i \in 1..Len(arg.bytes) :
            (arg.bytes[i] = 0 /\ \A j \in 1..(i - 1) : arg.bytes[j] # 0) =>
                \A tail \in Strings(ByteValues, MaxTail) :
                    LET other == SubSeq(arg.bytes, 1, i) \o tail
                    IN  Len(other) <= 8 =>
                            /\ Decoded(arg.session, other).out = ret.val.out
                            /\ Decoded(arg.session, other).session = ret.val.session

\* "50" NUL "a" NUL on a fresh session with secret 50 was scored as the win
C20_Witness ==
    /\ DecodeReturned
    /\ arg.session = new(50)
    /\ arg.bytes = <<53, 48, 0, 97>>
    /\ ret.val.session = [guesses |-> 1, secret |-> 50, done |-> TRUE]
    /\ ret.val.out = <<Text("You guessed 50 on your first try! Refresh to play again"),
                       Close>>

---------------------------------------------------------------------------
(* Claims about concurrent connections *)

\* the step belongs to an invocation for connection c
StepOf(c) == pc'[c] # pc[c]

\* C21: sessions are independent: an open, message or close event for one
\* connection never changes the secret, guess_count or completed flag of any
\* other connection's session, and after concurrently interleaved handlers each
\* session is in the state that its own connection's events produce when they
\* run alone, in order.
C21_SessionsAreIndependent ==
    /\ [][\A a \in Conns, b \in Conns :
             (a # b /\ StepOf(a)) =>
                 /\ (b \in DOMAIN sessions) <=> (b \in DOMAIN sessions')
                 /\ b \in DOMAIN sessions => sessions'[b] = sessions[b]]_vars
    /\ [](\A c \in Conns :
              /\ (c \in DOMAIN sessions) <=> (alone[c] # NoGame)
              /\ c \in DOMAIN sessions => sessions[c] = alone[c])

\* connection 1 has had two wrong guesses scored, connection 2 has won on its
\* first try in between and has another message waiting for the lock
C21_Witness ==
    /\ DOMAIN sessions = {1, 2}
    /\ AtReturn(1, "msg")
    /\ sessions[1] = [guesses |-> 2, secret |-> 50, done |-> FALSE]
    /\ sessions[2] = [guesses |-> 1, secret |-> 50, done |-> TRUE]
    /\ ev[2] = "msg"
    /\ pc[2] = "lock"
    /\ alone[1] = sessions[1]
    /\ alone[2] = sessions[2]

\* the invocation for connection c is between lock() and the drop of the guard
HoldsLock(c) == pc[c] \in {"enter", "probe", "read", "send", "ret"}

\* C22: at most one handler invocation at a time is between acquiring and
\* releasing the registry lock, and every insert, every lookup with the guess
\* made through it, and every remove of a session happens while that handler
\* holds the lock, so that a session is never read or scored concurrently with
\* its own removal.
C22_RegistryMutualExclusion ==
    /\ [](\A a \in Conns, b \in Conns : (HoldsLock(a) /\ HoldsLock(b)) => a = b)
    /\ [](\A c \in Conns : HoldsLock(c) => lockedBy = c)
    /\ [][\A c \in Conns :
             (StepOf(c) /\ (sessions' # sessions \/ entry'[c] # entry[c]
                               \/ scored'[c] # scored[c]))
                 => (lockedBy = c /\ lockedBy' \in {c, NoOne})]_vars

\* connection 1 is about to score a guess under the lock while the close event
\* of connection 2, whose session is in the registry, waits for the lock
C22_Witness ==
    /\ pc[1] = "read"
    /\ lockedBy = 1
    /\ 2 \in DOMAIN sessions
    /\ ev[2] = "closed"
    /\ pc[2] = "lock"

---------------------------------------------------------------------------
(* Claims about the replies to guesses *)

\* valid guesses scored on connection c since its open event, before the one
\* of the current invocation: the Greater and Less ones, without the current
\* one, and the winning one when the session was already completed
ScoredBefore(c) ==
    misses[c] - (IF scored[c].ord \in {"Greater", "Less"} THEN 1 ELSE 0)
              + (IF entry[c].done THEN 1 ELSE 0)

\* C23: the attempt number shown in each "too high", "too low" or winning
\* reply on a connection is one plus the number of valid guesses previously
\* scored on that connection since its open event; messages rejected as
\* oversized, undecodable, non-numeric or out of range do not advance it.
C23_AttemptNumberCountsScoredGuesses ==
    \A c \in Conns :
        (AtReturn(c, "msg") /\ scored[c] # NoScore) =>
            /\ scored[c].n = ScoredBefore(c) + 1
            /\ sent[c][1] = ExpectedReply(scored[c].ord, ScoredBefore(c) + 1,
                                          sessions[c].secret)[1]

\* no transport call of the invocation for connection c has failed
TransportOk(c) == res[c] # "Err"

\* C24: every message event whose transport calls all succeed sends exactly
\* one text frame, optionally followed by exactly one close frame; a close
\* frame is never sent without a text frame before it in the same invocation,
\* and never on the decode-error or invalid-guess paths.
C24_OneTextThenAtMostOneClose ==
    \A c \in Conns :
        /\ (AtReturn(c, "msg") /\ TransportOk(c)) =>
               /\ Len(sent[c]) \in {1, 2}
               /\ sent[c][1].type = "Text"
               /\ Len(sent[c]) = 2 => sent[c][2].type = "Close"
        /\ \A i \in 1..Len(sent[c]) :
               sent[c][i].type = "Close" =>
                   /\ i = 2
                   /\ sent[c][1].type = "Text"
                   /\ ~(WasRead(c) /\ scored[c] = NoScore)

\* an oversized frame was answered with the text and then the close frame
C24_Witness ==
    /\ AtReturn(1, "msg")
    /\ res[1] = "ErrSize"
    /\ len[1] = 9
    /\ sent[1] = <<Text("Request too big"), Close>>

===========================================================================
